---- MODULE Spec2Model ----
(***************************************************************************)
(* A model of the weather page script src/app.js: the alert auto-refresh   *)
(* scheduler (startAlertsAutoRefresh), the endpoint resolver and its cache *)
(* (resolveEndpointsForPoint), the alert aggregator (fetchAlertsCombined)  *)
(* and the severity sort of renderAlertsForPrimary.                        *)
(***************************************************************************)
EXTENDS Integers, Sequences, FiniteSets, TLC

(***************************************************************************)
(* Bounds of the model.                                                    *)
(***************************************************************************)
\* setTimeout calls explored in one run of the scheduler
MaxTimers == 5
\* calls of resolveEndpointsForPoint explored in one run
MaxCalls == 3
\* alert features the API returns in total to one run of fetchAlertsCombined
MaxFeatures == 3
\* alerts in the list renderAlertsForPrimary sorts
MaxAlerts == 3
\* stations in the lists given to getNearestObservationParallel (one longer
\* list apart, see StationLists)
MaxStations == 3
\* concurrent calls of getJSON
MaxRequests == 3

VARIABLES
  \* ---- startAlertsAutoRefresh (src/app.js 339-369)
  opts,        \* the opts argument: [intervalMs, maxBackoffMs]
  nextDelay,   \* let nextDelay
  timerId,     \* let timerId; 0 stands for null
  running,     \* let running
  timers,      \* the host's pending timeouts: timer id -> delay in ms
  nextId,      \* the id the next setTimeout call returns
  hidden,      \* document.hidden
  inflight,    \* calls of renderAlertsForPrimary made by tick and not settled
  cancelled,   \* history: the returned cancellation handle has been called
  prevDelay,   \* history: nextDelay before the last completed tick
  lastOutcome, \* history: outcome of the last completed tick
  fails,       \* history: consecutive failed ticks since the last success
  noops,       \* history: a tick was invoked while a refresh was running
  \* ---- resolveEndpointsForPoint (src/app.js 374-388)
  endpointCache, \* const endpointCache = new Map(): key -> EndpointSet
  calls,         \* the calls of resolveEndpointsForPoint, by call number
  \* ---- fetchAlertsCombined (src/app.js 168-206)
  faPc,        \* position of the call: idle, points, queries, done, failed
  zoneCodes,   \* const zoneCodes
  reqs,        \* const reqs: the labels, zone requests first, point last
  results,     \* const results, by position in reqs; state "pending" until settled
  unique,      \* const unique, the returned sequence
  received,    \* history: what the API answered to each request
  order,       \* history: the requests in the order they settled
  \* ---- renderAlertsForPrimary (src/app.js 208-337)
  active,      \* const active, as fetchAlertsCombined returned it
  shown,       \* the alerts in the order their cards are appended to the list
  renderPc,    \* position of the call: fetched, rendered
  \* ---- getNearestObservationParallel (src/app.js 390-418)
  stations,    \* stations.features, each with its id ("" when it has none)
  subset,      \* const subset: the positions in stations that are requested
  obsResults,  \* const results of Promise.allSettled, by position in subset
  obsPc,       \* position of the call: idle, awaiting, returned, threw
  obsReturn,   \* the value returned
  \* ---- getJSON (src/app.js 21-47)
  hasAbort,    \* const hasAbort: the host has AbortController
  requests,    \* the calls of getJSON: position, timer, error, time elapsed
  \* ---- init (src/app.js 470-668)
  initPc,      \* position of init
  fetched,     \* the answers of the hourly, daily and stations requests
  chartLib,    \* window.Chart is defined
  panels,      \* what each rendering concern shows
  autoRefresh, \* startAlertsAutoRefresh has been called
  \* ---- current conditions (src/app.js 423-465, 478-528)
  ccMode,      \* "init" or "compact": which of the two blocks runs
  ccPc,        \* position of the block
  hourlyFirst, \* hourly?.properties?.periods?.[0]
  selected,    \* what getNearestObservationParallel ended with
  display      \* the text of the elements the block writes

schedVars == <<opts, nextDelay, timerId, running, timers, nextId, hidden,
               inflight, cancelled, prevDelay, lastOutcome, fails, noops>>

cacheVars == <<endpointCache, calls>>

alertVars == <<faPc, zoneCodes, reqs, results, unique, received, order>>

renderVars == <<active, shown, renderPc>>

obsVars == <<stations, subset, obsResults, obsPc, obsReturn>>

\* the components added after the first four
jsonVars == <<hasAbort, requests>>

pageVars == <<initPc, fetched, chartLib, panels, autoRefresh>>

currentVars == <<ccMode, ccPc, hourlyFirst, selected, display>>

extraVars == <<obsVars, jsonVars, pageVars, currentVars>>

vars == <<schedVars, cacheVars, alertVars, renderVars, extraVars>>

\* what the actions of one component leave alone
notSched == <<cacheVars, alertVars, renderVars, extraVars>>
notCache == <<schedVars, alertVars, renderVars, extraVars>>
notAlert == <<schedVars, cacheVars, renderVars, extraVars>>
notRender == <<schedVars, cacheVars, alertVars, extraVars>>
firstVars == <<schedVars, cacheVars, alertVars, renderVars>>
notObs == <<firstVars, jsonVars, pageVars, currentVars>>
notJson == <<firstVars, obsVars, pageVars, currentVars>>
notPage == <<firstVars, obsVars, jsonVars, currentVars>>
notCurrent == <<firstVars, obsVars, jsonVars, pageVars>>

Min(a, b) == IF a <= b THEN a ELSE b

(***************************************************************************)
(* The auto-refresh scheduler.                                             *)
(***************************************************************************)
\* opts passed by init (line 532) and the values of the spec's scenario
Options ==
  { [intervalMs |-> 300000, maxBackoffMs |-> 1800000],
    [intervalMs |-> 60000,  maxBackoffMs |-> 300000] }

\* how a call of renderAlertsForPrimary ends, as tick sees it
Outcomes == {"ok", "hadError", "throw"}

\* setTimeout(tick, delay): a fresh id, pending until it fires or is cleared
SetTimeout(ts, id, delay) == [t \in DOMAIN ts \cup {id} |-> IF t = id THEN delay ELSE ts[t]]

\* clearTimeout(id): no effect when id is not pending
ClearTimeout(ts, id) == [t \in DOMAIN ts \ {id} |-> ts[t]]

\* the backoff without its cap
NextDelayUncapped(o, nd, op) ==
  IF o = "ok" THEN op.intervalMs ELSE nd * 2

\* lines 351 and 353: the delay after a tick that ended with outcome o
NextDelayAfter(o, nd, op) ==
  IF o = "ok" THEN op.intervalMs ELSE Min(nd * 2, op.maxBackoffMs)

\* startAlertsAutoRefresh has been called (line 532)
SchedInit ==
  /\ opts \in Options
  /\ nextDelay = opts.intervalMs
  /\ running = FALSE
  /\ timerId = 1
  /\ timers = SetTimeout(<<>>, 1, opts.intervalMs)
  /\ nextId = 2
  /\ hidden = FALSE
  /\ inflight = 0
  /\ cancelled = FALSE
  /\ prevDelay = opts.intervalMs
  /\ lastOutcome = "none"
  /\ fails = 0
  /\ noops = FALSE

\* tick without its guard
TickStartsAlways(r) == TRUE

\* the guard of tick (line 347): does this invocation start a refresh?
TickStarts(r) == ~r

\* A pending timeout fires and runs tick up to its await (lines 346-350).
TimerFire(t) ==
  /\ t \in DOMAIN timers
  /\ timers' = ClearTimeout(timers, t)
  /\ IF TickStarts(running)
       THEN running' = TRUE /\ inflight' = inflight + 1 /\ UNCHANGED noops
       ELSE noops' = TRUE /\ UNCHANGED <<running, inflight>>
  /\ UNCHANGED <<opts, nextDelay, timerId, nextId, hidden, cancelled,
                 prevDelay, lastOutcome, fails>>
  /\ UNCHANGED notSched

\* renderAlertsForPrimary settles and tick resumes (lines 351-358).
RefreshComplete(o) ==
  /\ inflight > 0
  /\ nextId <= MaxTimers
  /\ nextDelay' = NextDelayAfter(o, nextDelay, opts)
  /\ running' = FALSE
  /\ timerId' = nextId
  /\ timers' = SetTimeout(timers, nextId, nextDelay')
  /\ nextId' = nextId + 1
  /\ inflight' = inflight - 1
  /\ prevDelay' = nextDelay
  /\ lastOutcome' = o
  /\ fails' = IF o = "ok" THEN 0 ELSE fails + 1
  /\ UNCHANGED <<opts, hidden, cancelled, noops>>
  /\ UNCHANGED notSched

\* The visibilitychange listener (lines 363-366), page going hidden.
BecomeHidden ==
  /\ ~hidden
  /\ hidden' = TRUE
  /\ timers' = IF timerId # 0 THEN ClearTimeout(timers, timerId) ELSE timers
  /\ timerId' = 0
  /\ UNCHANGED <<opts, nextDelay, running, nextId, inflight, cancelled,
                 prevDelay, lastOutcome, fails, noops>>
  /\ UNCHANGED notSched

\* The visibilitychange listener (lines 363-366), page becoming visible.
BecomeVisible ==
  /\ hidden
  /\ hidden' = FALSE
  /\ IF timerId = 0
       THEN /\ nextId <= MaxTimers
            /\ timerId' = nextId
            /\ timers' = SetTimeout(timers, nextId, 1000)
            /\ nextId' = nextId + 1
       ELSE UNCHANGED <<timerId, timers, nextId>>
  /\ UNCHANGED <<opts, nextDelay, running, inflight, cancelled,
                 prevDelay, lastOutcome, fails, noops>>
  /\ UNCHANGED notSched

\* The function returned by startAlertsAutoRefresh (line 368).
Cancel ==
  /\ timers' = IF timerId # 0 THEN ClearTimeout(timers, timerId) ELSE timers
  /\ timerId' = 0
  /\ cancelled' = TRUE
  /\ UNCHANGED <<opts, nextDelay, running, nextId, hidden, inflight,
                 prevDelay, lastOutcome, fails, noops>>
  /\ UNCHANGED notSched

SchedNext ==
  \/ \E t \in 1..MaxTimers : TimerFire(t)
  \/ \E o \in Outcomes : RefreshComplete(o)
  \/ BecomeHidden
  \/ BecomeVisible
  \/ Cancel

\* before startAlertsAutoRefresh is called: no timer, no listener
SchedIdle ==
  /\ opts = [intervalMs |-> 300000, maxBackoffMs |-> 1800000]
  /\ nextDelay = opts.intervalMs
  /\ running = FALSE
  /\ timerId = 0
  /\ timers = <<>>
  /\ nextId = 1
  /\ hidden = FALSE
  /\ inflight = 0
  /\ cancelled = FALSE
  /\ prevDelay = opts.intervalMs
  /\ lastOutcome = "none"
  /\ fails = 0
  /\ noops = FALSE

(***************************************************************************)
(* The endpoint resolver and its cache.                                    *)
(***************************************************************************)
\* coordinate pairs the resolver is called with
Coords == { <<1, 23>>, <<12, 3>> }

\* properties of a /points response: the three URLs, "" when absent
PointsBodies ==
  { [forecastHourly |-> "h1", forecast |-> "d1", observationStations |-> "s1"],
    [forecastHourly |-> "h2", forecast |-> "d1", observationStations |-> "s1"],
    [forecastHourly |-> "h1", forecast |-> "",   observationStations |-> "s1"] }

\* line 375: the template string `${lat},${lon}`
keyFromLatLon(lat, lon) == ToString(lat) \o "," \o ToString(lon)

NoCall == [pc |-> "idle", lat |-> 0, lon |-> 0, value |-> "none",
           usedNet |-> FALSE, after |-> {}]

CacheInit ==
  /\ endpointCache = <<>>
  /\ calls = [c \in 1..MaxCalls |-> NoCall]

\* the calls that have returned a value
Returned == { c \in DOMAIN calls : calls[c].pc = "returned" }

\* a lookup that forgets to store its result
CacheKeep(cache, key, value) == cache

\* line 386: endpointCache.set(key, value)
CacheSet(cache, key, value) ==
  [k \in DOMAIN cache \cup {key} |-> IF k = key THEN value ELSE cache[k]]

\* resolveEndpointsForPoint(lat, lon) up to its first await (lines 377-380):
\* a cache hit returns at once, a miss issues the /points request.
ResolveCall(c, lat, lon) ==
  /\ calls[c].pc = "idle"
  /\ \A d \in 1..(c - 1) : calls[d].pc # "idle"
  /\ LET key == keyFromLatLon(lat, lon) IN
       IF key \in DOMAIN endpointCache
         THEN calls' = [calls EXCEPT ![c] =
                [pc |-> "returned", lat |-> lat, lon |-> lon,
                 value |-> endpointCache[key], usedNet |-> FALSE,
                 after |-> Returned]]
         ELSE calls' = [calls EXCEPT ![c] =
                [pc |-> "awaiting", lat |-> lat, lon |-> lon,
                 value |-> "none", usedNet |-> TRUE, after |-> Returned]]
  /\ UNCHANGED endpointCache
  /\ UNCHANGED notCache

\* The /points response arrives (lines 381-387).
ResolveResponse(c, body) ==
  /\ calls[c].pc = "awaiting"
  /\ LET hourlyUrl   == body.forecastHourly
         dailyUrl    == body.forecast
         stationsUrl == body.observationStations
         key         == keyFromLatLon(calls[c].lat, calls[c].lon)
         value       == [hourlyUrl |-> hourlyUrl, dailyUrl |-> dailyUrl,
                         stationsUrl |-> stationsUrl]
     IN IF hourlyUrl = "" \/ dailyUrl = "" \/ stationsUrl = ""
          THEN /\ calls' = [calls EXCEPT ![c].pc = "threw"]
               /\ UNCHANGED endpointCache
          ELSE /\ endpointCache' = CacheSet(endpointCache, key, value)
               /\ calls' = [calls EXCEPT ![c].pc = "returned", ![c].value = value]
  /\ UNCHANGED notCache

\* getJSON rejects (timeout, network error, non-2xx): line 380 throws.
ResolveFail(c) ==
  /\ calls[c].pc = "awaiting"
  /\ calls' = [calls EXCEPT ![c].pc = "threw"]
  /\ UNCHANGED endpointCache
  /\ UNCHANGED notCache

CacheNext ==
  \/ \E c \in 1..MaxCalls, xy \in Coords : ResolveCall(c, xy[1], xy[2])
  \/ \E c \in 1..MaxCalls, body \in PointsBodies : ResolveResponse(c, body)
  \/ \E c \in 1..MaxCalls : ResolveFail(c)

(***************************************************************************)
(* The alert aggregator.                                                   *)
(***************************************************************************)
\* A URL string of a /points response: abs tells whether new URL() parses
\* it, parts is the pathname (abs) or the whole string (not abs) split at "/".
Url(abs, parts) == [kind |-> "string", abs |-> abs, parts |-> parts]
NoUrl == [kind |-> "absent", abs |-> FALSE, parts |-> <<>>]
NotAString == [kind |-> "other", abs |-> FALSE, parts |-> <<>>]

\* properties of a /points response, as zoneCodesFromPoints reads them
PointsZones ==
  { [forecastZone    |-> Url(TRUE, <<"", "zones", "forecast", "TX209">>),
     county          |-> Url(TRUE, <<"", "zones", "county", "TX453">>),
     fireWeatherZone |-> Url(TRUE, <<"", "zones", "fire", "TX209", "">>)],
    [forecastZone    |-> NoUrl,
     county          |-> Url(FALSE, <<"zones", "TX453">>),
     fireWeatherZone |-> Url(FALSE, <<"zones", "">>)],
    [forecastZone    |-> NotAString,
     county          |-> NoUrl,
     fireWeatherZone |-> Url(TRUE, <<"">>)] }

\* the UGC list of a feature: an array, absent, or a value that is no array
Ugc(codes) == [kind |-> "array", items |-> codes]
NoUgc == [kind |-> "absent", items |-> <<>>]
UgcString(code) == [kind |-> "string", items |-> <<code>>]

\* An alert feature: "" is an absent string, 0 an absent timestamp; resp is
\* the label of the request whose response the object was parsed from.
Feature(id, pid, atid, event, sent, effective, onset, severity, ugc) ==
  [id |-> id, pid |-> pid, atid |-> atid, event |-> event, sent |-> sent,
   effective |-> effective, onset |-> onset, severity |-> severity,
   ugc |-> ugc, resp |-> "none"]

\* features the alert queries answer with
Features ==
  { Feature("urn:1", "", "", "Flood", 1, 1, 2, "Severe", Ugc(<<"TX209">>)),
    Feature("", "urn:1", "", "Flood Watch", 1, 1, 2, "Minor", Ugc(<<"ZZ999">>)),
    Feature("", "", "urn:2", "Wind", 0, 0, 0, "Moderate", Ugc(<<"ZZ999", "TX453">>)),
    Feature("", "", "", "Heat", 1, 0, 0, "Extreme", Ugc(<<"TX453">>)),
    Feature("", "", "", "Heat", 0, 1, 0, "Unknown", NoUgc),
    Feature("", "", "", "", 0, 0, 0, "", UgcString("TX209")) }

SeqsUpTo(S, n) == UNION { [1..m -> S] : m \in 0..n }

Last(s) == s[Len(s)]

\* s without its empty strings: filter(Boolean)
NonEmpty(s) == SelectSeq(s, LAMBDA x : x # "")

\* s without repeats, first occurrences kept: Array.from(new Set(s))
RECURSIVE Distinct(_)
Distinct(s) ==
  IF s = <<>> THEN <<>>
  ELSE LET front == Distinct(SubSeq(s, 1, Len(s) - 1)) IN
       IF \E k \in 1..Len(front) : front[k] = Last(s) THEN front
       ELSE Append(front, Last(s))

\* lines 142-151: the zone code of a reference URL, "" standing for null
zoneCode(zUrl) ==
  IF zUrl.kind # "string" THEN ""
  ELSE IF zUrl.abs
    THEN LET segs == NonEmpty(zUrl.parts) IN
         IF segs = <<>> THEN "" ELSE Last(segs)
    ELSE Last(zUrl.parts)

\* lines 138-153
zoneCodesFromPoints(points) ==
  Distinct(NonEmpty(<<zoneCode(points.forecastZone), zoneCode(points.county),
                      zoneCode(points.fireWeatherZone)>>))

\* lines 155-162; a timestamp in a key is its string
alertKey(f) ==
  IF f.id # "" THEN f.id
  ELSE IF f.pid # "" THEN f.pid
  ELSE IF f.atid # "" THEN f.atid
  ELSE LET sent == IF f.sent # 0 THEN ToString(f.sent)
                   ELSE IF f.effective # 0 THEN ToString(f.effective)
                   ELSE IF f.onset # 0 THEN ToString(f.onset) ELSE ""
       IN (IF f.event # "" THEN f.event ELSE "Unknown") \o "|" \o sent

\* lines 163-166
zonesFromAlert(f) == IF f.ugc.kind = "array" THEN f.ugc.items ELSE <<>>

\* a zone filter that keeps everything
KeepsAll(f, codes) == TRUE

\* lines 190-193: the predicate of zoneFiltered
KeepsZoneFeature(f, codes) ==
  \E k \in 1..Len(zonesFromAlert(f)) :
    \E z \in 1..Len(codes) : zonesFromAlert(f)[k] = codes[z]

\* lines 172-174
ZoneLabel(z) == [kind |-> "zone", arg |-> z]
PointLabel == [kind |-> "point", arg |-> "lat,lon"]
RequestsFor(codes) == [k \in 1..Len(codes) |-> ZoneLabel(codes[k])] \o <<PointLabel>>

Pending == [state |-> "pending", ok |-> FALSE, features |-> <<>>]

\* line 187: features of the first result labelled point:
PointFeaturesOf(rs, labels) ==
  LET at == { k \in 1..Len(labels) : labels[k].kind = "point" } IN
  IF at = {} THEN <<>> ELSE rs[CHOOSE k \in at : \A m \in at : k <= m].features

\* the zone features collected as the requests settle: those settled
\* earlier first, the request settling now last
ZoneFeaturesAsSettled(rs, labels, n) ==
  LET rest == { k \in 1..n : \A m \in 1..Len(order) : order[m] # k }
      RECURSIVE Settled(_)
      Settled(m) ==
        IF m = 0 THEN <<>>
        ELSE Settled(m - 1) \o
             (IF labels[order[m]].kind = "zone" THEN rs[order[m]].features ELSE <<>>)
      RECURSIVE Rest(_)
      Rest(m) ==
        IF m = 0 THEN <<>>
        ELSE Rest(m - 1) \o
             (IF m \in rest /\ labels[m].kind = "zone" THEN rs[m].features ELSE <<>>)
  IN Settled(Len(order)) \o Rest(n)

\* line 188: the features of the results labelled zone:, in the order of reqs
RECURSIVE ZoneFeaturesOf(_, _, _)
ZoneFeaturesOf(rs, labels, n) ==
  IF n = 0 THEN <<>>
  ELSE ZoneFeaturesOf(rs, labels, n - 1) \o
       (IF labels[n].kind = "zone" THEN rs[n].features ELSE <<>>)

\* lines 187-195: const all
AllOf(rs, labels, codes) ==
  PointFeaturesOf(rs, labels) \o
  SelectSeq(ZoneFeaturesOf(rs, labels, Len(labels)),
            LAMBDA f : KeepsZoneFeature(f, codes))

\* a loop that forgets to skip the keys it has seen
RECURSIVE UniqueKeepAll(_, _, _)
UniqueKeepAll(all, seen, acc) ==
  IF all = <<>> THEN acc ELSE UniqueKeepAll(Tail(all), seen, Append(acc, Head(all)))

\* lines 197-204: the loop over all, with seen and unique
RECURSIVE UniqueLoop(_, _, _)
UniqueLoop(all, seen, acc) ==
  IF all = <<>> THEN acc
  ELSE LET key == alertKey(Head(all)) IN
       IF key \in seen THEN UniqueLoop(Tail(all), seen, acc)
       ELSE UniqueLoop(Tail(all), seen \cup {key}, Append(acc, Head(all)))

AlertInit ==
  /\ faPc = "idle"
  /\ zoneCodes = <<>>
  /\ reqs = <<>>
  /\ results = <<>>
  /\ unique = <<>>
  /\ received = <<>>
  /\ order = <<>>

\* fetchAlertsCombined is called: the /points request is issued (line 169).
FetchStart ==
  /\ faPc = "idle"
  /\ faPc' = "points"
  /\ UNCHANGED <<zoneCodes, reqs, results, unique, received, order>>
  /\ UNCHANGED notAlert

\* /points answers: lines 170-176, all alert requests are issued.
PointsOk(points) ==
  /\ faPc = "points"
  /\ faPc' = "queries"
  /\ zoneCodes' = zoneCodesFromPoints(points)
  /\ reqs' = RequestsFor(zoneCodes')
  /\ results' = [k \in 1..Len(reqs') |-> Pending]
  /\ received' = [k \in 1..Len(reqs') |-> [state |-> "pending", features |-> <<>>]]
  /\ UNCHANGED <<unique, order>>
  /\ UNCHANGED notAlert

\* /points fails: line 169 throws out of fetchAlertsCombined.
PointsFail ==
  /\ faPc = "points"
  /\ faPc' = "failed"
  /\ UNCHANGED <<zoneCodes, reqs, results, unique, received, order>>
  /\ UNCHANGED notAlert

\* When the last request has settled, Promise.all resolves and lines 187-205
\* run; until then the call stays suspended.
Settle(rs) ==
  IF \A k \in 1..Len(rs) : rs[k].state = "settled"
    THEN /\ faPc' = "done"
         /\ unique' = UniqueLoop(AllOf(rs, reqs, zoneCodes), {}, <<>>)
    ELSE UNCHANGED <<faPc, unique>>

FeaturesReceived ==
  LET RECURSIVE Sum(_)
      Sum(n) == IF n = 0 THEN 0 ELSE Sum(n - 1) + Len(received[n].features)
  IN Sum(Len(received))

\* a request without its try/catch: the rejection rejects Promise.all
QueryFailRejects(i) ==
  /\ faPc = "queries"
  /\ i \in 1..Len(reqs)
  /\ results[i].state = "pending"
  /\ faPc' = "failed"
  /\ received' = [received EXCEPT ![i] = [state |-> "failed", features |-> <<>>]]
  /\ order' = Append(order, i)
  /\ UNCHANGED <<zoneCodes, reqs, results, unique>>
  /\ UNCHANGED notAlert

\* An alert request answers (lines 178-180); feats are fresh objects.
QueryOk(i, feats) ==
  /\ faPc = "queries"
  /\ i \in 1..Len(reqs)
  /\ results[i].state = "pending"
  /\ FeaturesReceived + Len(feats) <= MaxFeatures
  /\ LET features == [k \in 1..Len(feats) |-> [feats[k] EXCEPT !.resp = reqs[i].kind]]
         rs == [results EXCEPT ![i] = [state |-> "settled", ok |-> TRUE, features |-> features]]
     IN /\ results' = rs
        /\ received' = [received EXCEPT ![i] = [state |-> "ok", features |-> features]]
        /\ Settle(rs)
  /\ order' = Append(order, i)
  /\ UNCHANGED <<zoneCodes, reqs>>
  /\ UNCHANGED notAlert

\* An alert request fails (lines 181-184).
QueryFail(i) ==
  /\ faPc = "queries"
  /\ i \in 1..Len(reqs)
  /\ results[i].state = "pending"
  /\ LET rs == [results EXCEPT ![i] = [state |-> "settled", ok |-> FALSE, features |-> <<>>]]
     IN /\ results' = rs
        /\ Settle(rs)
  /\ received' = [received EXCEPT ![i] = [state |-> "failed", features |-> <<>>]]
  /\ order' = Append(order, i)
  /\ UNCHANGED <<zoneCodes, reqs>>
  /\ UNCHANGED notAlert

AlertNext ==
  \/ FetchStart
  \/ \E points \in PointsZones : PointsOk(points)
  \/ PointsFail
  \/ \E i \in DOMAIN results, feats \in SeqsUpTo(Features, MaxFeatures - FeaturesReceived) : QueryOk(i, feats)
  \/ \E i \in DOMAIN results : QueryFail(i)

(***************************************************************************)
(* The severity sort of renderAlertsForPrimary.                            *)
(***************************************************************************)
\* Date.now() while the list is sorted (lines 253-254), in the time unit of
\* the timestamps
Now == 3

\* values of properties.severity; "Other" is a value the table does not have
Severities == {"Extreme", "Severe", "Moderate", "Minor", "Unknown", "Other"}

\* <<onset, effective>> of an alert, 0 when absent
Timings == { <<0, 0>>, <<0, 2>>, <<4, 1>> }

\* line 108 and the "|| 0" of lines 250-251
SEVERITY_ORDER(sev) ==
  CASE sev = "Extreme"  -> 5
    [] sev = "Severe"   -> 4
    [] sev = "Moderate" -> 3
    [] sev = "Minor"    -> 2
    [] sev = "Unknown"  -> 1
    [] OTHER            -> 0

\* lines 253-254: new Date(onset || effective || Date.now()).getTime()
SortTime(f) ==
  IF f.onset # 0 THEN f.onset ELSE IF f.effective # 0 THEN f.effective ELSE Now

\* a comparator that sorts the severities the wrong way round
CompareAscending(a, b) ==
  LET sa == SEVERITY_ORDER(a.severity)
      sb == SEVERITY_ORDER(b.severity)
  IN IF sb # sa THEN sa - sb ELSE SortTime(a) - SortTime(b)

\* lines 249-256: the comparator of active.sort
Compare(a, b) ==
  LET sa == SEVERITY_ORDER(a.severity)
      sb == SEVERITY_ORDER(b.severity)
  IN IF sb # sa THEN sb - sa ELSE SortTime(a) - SortTime(b)

\* x put into the sorted sequence s behind every element not after it
InsertSorted(s, x) ==
  LET before == { k \in 1..Len(s) : Compare(s[k], x) <= 0 }
      n == IF before = {} THEN 0 ELSE CHOOSE k \in before : \A m \in before : m <= k
  IN SubSeq(s, 1, n) \o <<x>> \o SubSeq(s, n + 1, Len(s))

\* Array.prototype.sort with this comparator: a stable sort
RECURSIVE SortAlerts(_)
SortAlerts(s) ==
  IF s = <<>> THEN <<>>
  ELSE InsertSorted(SortAlerts(SubSeq(s, 1, Len(s) - 1)), Last(s))

\* the lists fetchAlertsCombined can return: no two features share a key
ActiveLists ==
  { [k \in 1..Len(st) |->
       Feature(ToString(k), "", "", "Alert", 0, st[k][2][2], st[k][2][1], st[k][1],
               NoUgc)] :
    st \in SeqsUpTo(Severities \X Timings, MaxAlerts) }

RenderInit ==
  /\ active = <<>>
  /\ shown = <<>>
  /\ renderPc = "idle"

\* fetchAlertsCombined has returned to renderAlertsForPrimary (line 215)
RenderFetched ==
  /\ active \in ActiveLists
  /\ shown = <<>>
  /\ renderPc = "fetched"

\* lines 217-330: the empty card, or the sort and one card per alert
RenderAlerts ==
  /\ renderPc = "fetched"
  /\ renderPc' = "rendered"
  /\ shown' = IF Len(active) = 0 THEN <<>> ELSE SortAlerts(active)
  /\ UNCHANGED active
  /\ UNCHANGED notRender

RenderNext == RenderAlerts

(***************************************************************************)
(* The observation selector.                                               *)
(***************************************************************************)
\* line 392: feats.slice(0, 10)
SliceLimit == 10

\* A measurement is <<>> when its value is null and <<v>> otherwise;
\* textDescription "" and timestamp 0 are absent.
Observation(temp, hum, spd, dir, desc, ts) ==
  [temperature |-> temp, relativeHumidity |-> hum, windSpeed |-> spd,
   windDirection |-> dir, textDescription |-> desc, timestamp |-> ts]

NoObservation == Observation(<<>>, <<>>, <<>>, <<>>, "", 0)

\* properties of the latest observation of a station
Observations ==
  { Observation(m[1], m[2], m[3], m[4], desc, ts) :
      m \in { <<<<>>, <<>>, <<>>, <<>>>>, <<<<0>>, <<>>, <<>>, <<>>>>,
              <<<<0>>, <<40>>, <<5>>, <<>>>>, <<<<0>>, <<40>>, <<5>>, <<0>>>> },
      desc \in {"", "Fair"}, ts \in {0, 1, 4} }

\* what the request for a station's latest observation ends with: a body
\* with properties, a body without, or a rejection
ObsAnswers ==
  { [status |-> "fulfilled", hasP |-> TRUE, p |-> o] : o \in Observations } \cup
  { [status |-> "fulfilled", hasP |-> FALSE, p |-> NoObservation],
    [status |-> "rejected", hasP |-> FALSE, p |-> NoObservation] }

ObsPending == [status |-> "pending", hasP |-> FALSE, p |-> NoObservation]

\* station lists: every list of up to MaxStations stations with or without
\* an id, and one of 12 stations of which the 1st and the last three have one
StationLists ==
  { [k \in 1..Len(b) |-> [id |-> IF b[k] THEN "s" \o ToString(k) ELSE ""]] :
      b \in SeqsUpTo(BOOLEAN, MaxStations) } \cup
  { [k \in 1..12 |-> [id |-> IF k \in {1, 10, 11, 12} THEN "s" \o ToString(k) ELSE ""]] }

\* line 392: the positions of feats.slice(0, 10).filter(f => f?.id)
RECURSIVE SubsetOf(_, _)
SubsetOf(feats, n) ==
  IF n = 0 THEN <<>>
  ELSE SubsetOf(feats, n - 1) \o
       (IF n <= SliceLimit /\ feats[n].id # "" THEN <<n>> ELSE <<>>)

\* lines 396-405
score(p) ==
  LET hasTemp     == p.temperature # <<>>
      hasHumidity == p.relativeHumidity # <<>>
      hasWindSpd  == p.windSpeed # <<>>
      hasWindDir  == p.windDirection # <<>>
      hasDesc     == p.textDescription # ""
  IN IF hasTemp /\ hasHumidity /\ hasWindSpd /\ hasWindDir THEN 3
     ELSE IF hasTemp /\ hasDesc THEN 2
     ELSE IF hasTemp \/ hasDesc THEN 1 ELSE 0

\* lines 412-413: new Date(p.timestamp || Date.now()).getTime()
ObsTime(p) == IF p.timestamp # 0 THEN p.timestamp ELSE Now

\* a comparator that prefers the newest observation
ObsCompareNewest(a, b) ==
  IF score(b.p) # score(a.p) THEN score(b.p) - score(a.p)
  ELSE ObsTime(b.p) - ObsTime(a.p)

\* lines 409-415: the comparator of the sort of usable
ObsCompare(a, b) ==
  IF score(b.p) # score(a.p) THEN score(b.p) - score(a.p)
  ELSE ObsTime(a.p) - ObsTime(b.p)

\* Array.prototype.sort with ObsCompare: a stable sort
ObsInsert(s, x) ==
  LET before == { k \in 1..Len(s) : ObsCompare(s[k], x) <= 0 }
      n == IF before = {} THEN 0 ELSE CHOOSE k \in before : \A m \in before : m <= k
  IN SubSeq(s, 1, n) \o <<x>> \o SubSeq(s, n + 1, Len(s))

RECURSIVE ObsSort(_)
ObsSort(s) ==
  IF s = <<>> THEN <<>>
  ELSE ObsInsert(ObsSort(SubSeq(s, 1, Len(s) - 1)), Last(s))

\* lines 406-415: const usable
Usable(rs) ==
  ObsSort(SelectSeq(rs, LAMBDA r : r.status = "fulfilled" /\ r.hasP))

ObsIdle ==
  /\ stations = <<>>
  /\ subset = <<>>
  /\ obsResults = <<>>
  /\ obsPc = "idle"
  /\ obsReturn = NoObservation

\* the caller holds a station list and has not called the selector yet
ObsInit ==
  /\ stations \in StationLists
  /\ subset = <<>>
  /\ obsResults = <<>>
  /\ obsPc = "idle"
  /\ obsReturn = NoObservation

\* When every request has settled, Promise.allSettled resolves and lines
\* 406-417 run; until then the call stays suspended.
ObsSettle(rs) ==
  IF \A k \in 1..Len(rs) : rs[k].status # "pending"
    THEN LET usable == Usable(rs) IN
         IF usable # <<>>
           THEN obsPc' = "returned" /\ obsReturn' = usable[1].p
           ELSE obsPc' = "threw" /\ UNCHANGED obsReturn
    ELSE obsPc' = "awaiting" /\ UNCHANGED obsReturn

\* getNearestObservationParallel(stations) up to its await (lines 391-395)
ObsStart ==
  /\ obsPc = "idle"
  /\ subset' = SubsetOf(stations, Len(stations))
  /\ obsResults' = [k \in 1..Len(subset') |-> ObsPending]
  /\ ObsSettle(obsResults')
  /\ UNCHANGED stations
  /\ UNCHANGED notObs

\* The request for the k-th station of subset settles (line 394).
ObsAnswer(k, a) ==
  /\ obsPc = "awaiting"
  /\ k \in 1..Len(obsResults)
  /\ obsResults[k].status = "pending"
  /\ obsResults' = [obsResults EXCEPT ![k] = a]
  /\ ObsSettle(obsResults')
  /\ UNCHANGED <<stations, subset>>
  /\ UNCHANGED notObs

ObsNext ==
  \/ ObsStart
  \/ \E k \in DOMAIN obsResults, a \in ObsAnswers : ObsAnswer(k, a)

(***************************************************************************)
(* The fetch helper.                                                       *)
(***************************************************************************)
\* A call of getJSON. pc: idle, fetching (await fetch), errbody (await
\* res.text()), body (res.json() returned, not settled), returned, failed.
\* timer: none, armed, cleared, fired. elapsed: timeoutMs has passed since
\* the call. error: none, timeout, http, network, parse.
NoRequest == [pc |-> "idle", timer |-> "none", elapsed |-> FALSE, error |-> "none"]

JsonIdle ==
  /\ hasAbort = TRUE
  /\ requests = <<>>

JsonInit ==
  /\ hasAbort \in BOOLEAN
  /\ requests = [r \in 1..MaxRequests |-> NoRequest]

\* line 45: if (timer) clearTimeout(timer)
TimerCleared(timer) == IF timer = "armed" THEN "cleared" ELSE timer

\* lines 22-34: the timer is armed and fetch is called
JsonCall(r) ==
  /\ requests[r].pc = "idle"
  /\ requests' = [requests EXCEPT ![r].pc = "fetching",
                                  ![r].timer = IF hasAbort THEN "armed" ELSE "none"]
  /\ UNCHANGED hasAbort
  /\ UNCHANGED notJson

\* fetch resolves with res.ok: line 39 returns the promise of res.json()
\* and the finally block runs before the body is read
JsonHeadersOk(r) ==
  /\ requests[r].pc = "fetching"
  /\ requests' = [requests EXCEPT ![r].pc = "body",
                                  ![r].timer = TimerCleared(requests[r].timer)]
  /\ UNCHANGED hasAbort
  /\ UNCHANGED notJson

\* fetch resolves with !res.ok: line 36 awaits res.text()
JsonHeadersNotOk(r) ==
  /\ requests[r].pc = "fetching"
  /\ requests' = [requests EXCEPT ![r].pc = "errbody"]
  /\ UNCHANGED hasAbort
  /\ UNCHANGED notJson

\* res.text() settles (a rejection gives ''): line 37 throws, lines 40-45
JsonErrorBody(r) ==
  /\ requests[r].pc = "errbody"
  /\ requests' = [requests EXCEPT ![r].pc = "failed", ![r].error = "http",
                                  ![r].timer = TimerCleared(requests[r].timer)]
  /\ UNCHANGED hasAbort
  /\ UNCHANGED notJson

\* fetch rejects for a reason other than the abort: lines 40-45
JsonNetworkError(r) ==
  /\ requests[r].pc = "fetching"
  /\ requests' = [requests EXCEPT ![r].pc = "failed", ![r].error = "network",
                                  ![r].timer = TimerCleared(requests[r].timer)]
  /\ UNCHANGED hasAbort
  /\ UNCHANGED notJson

\* the promise of res.json() settles: the call returns the value or fails
JsonBody(r, ok) ==
  /\ requests[r].pc = "body"
  /\ requests' = [requests EXCEPT ![r].pc = IF ok THEN "returned" ELSE "failed",
                                  ![r].error = IF ok THEN "none" ELSE "parse"]
  /\ UNCHANGED hasAbort
  /\ UNCHANGED notJson

\* timeoutMs passes. An armed timer fires and calls controller.abort()
\* (line 24): a pending fetch rejects with AbortError and line 41 throws the
\* timeout error; a pending res.text() rejects and line 37 throws.
JsonTimeout(r) ==
  /\ requests[r].pc # "idle"
  /\ ~requests[r].elapsed
  /\ requests' =
       IF requests[r].timer = "armed"
         THEN [requests EXCEPT
                 ![r].elapsed = TRUE,
                 ![r].timer = "fired",
                 ![r].pc = IF @ \in {"fetching", "errbody"} THEN "failed" ELSE @,
                 ![r].error = IF requests[r].pc = "fetching" THEN "timeout"
                              ELSE IF requests[r].pc = "errbody" THEN "http" ELSE @]
         ELSE [requests EXCEPT ![r].elapsed = TRUE]
  /\ UNCHANGED hasAbort
  /\ UNCHANGED notJson

JsonNext ==
  \/ \E r \in 1..MaxRequests : JsonCall(r)
  \/ \E r \in 1..MaxRequests : JsonHeadersOk(r)
  \/ \E r \in 1..MaxRequests : JsonHeadersNotOk(r)
  \/ \E r \in 1..MaxRequests : JsonErrorBody(r)
  \/ \E r \in 1..MaxRequests : JsonNetworkError(r)
  \/ \E r \in 1..MaxRequests, ok \in BOOLEAN : JsonBody(r, ok)
  \/ \E r \in 1..MaxRequests : JsonTimeout(r)

(***************************************************************************)
(* The top-level initialization sequence.                                  *)
(***************************************************************************)
Feeds == {"hourly", "daily", "stations"}

Concerns == {"current", "alerts", "chart", "table"}

\* A body a request can resolve with: "data" has periods (features),
\* "empty" has none, "malformed" is one the code reading it throws on.
Bodies == {"data", "empty", "malformed"}

PageIdle ==
  /\ initPc = "off"
  /\ fetched = <<>>
  /\ chartLib = TRUE
  /\ panels = <<>>
  /\ autoRefresh = FALSE

PageInit ==
  /\ initPc = "resolving"
  /\ fetched = [f \in Feeds |-> "unsent"]
  /\ chartLib \in BOOLEAN
  /\ panels = [c \in Concerns |-> "waiting"]
  /\ autoRefresh = FALSE

\* lines 660-667: the outer catch writes one message into the three error
\* boxes and unhides the alerts panel
OuterCatch == [panels EXCEPT !["current"] = "blocked", !["chart"] = "blocked",
                             !["table"] = "blocked"]

\* the answers of line 473 once the request f has the answer b
Answered(f, b) == [fetched EXCEPT ![f] = b]

\* line 472: resolveEndpointsForPoint resolves, and line 473 sends the three
\* requests, or it rejects
PageResolve(ok) ==
  /\ initPc = "resolving"
  /\ IF ok
       THEN /\ initPc' = "fetching"
            /\ fetched' = [f \in Feeds |-> "pending"]
            /\ UNCHANGED panels
       ELSE /\ initPc' = "failed"
            /\ panels' = OuterCatch
            /\ UNCHANGED fetched
  /\ UNCHANGED <<chartLib, autoRefresh>>
  /\ UNCHANGED notPage

\* lines 473-475: one of the three requests settles. Promise.all rejects at
\* the first rejection and resolves when all three have resolved; a request
\* that settles after the rejection changes nothing.
PageFetched(f, b) ==
  /\ fetched[f] = "pending"
  /\ fetched' = Answered(f, b)
  /\ IF initPc = "fetching" /\ b = "failed"
       THEN initPc' = "failed" /\ panels' = OuterCatch
       ELSE IF initPc = "fetching" /\ \A g \in Feeds : fetched'[g] \in Bodies
         THEN initPc' = "current" /\ UNCHANGED panels
         ELSE UNCHANGED <<initPc, panels>>
  /\ UNCHANGED <<chartLib, autoRefresh>>
  /\ UNCHANGED notPage

\* lines 478-528: the current conditions block. live: the observation
\* selector returned an observation.
PageCurrent(live) ==
  /\ initPc = "current"
  /\ live => fetched["stations"] = "data"
  /\ panels' = [panels EXCEPT !["current"] =
                  IF live THEN "live"
                  ELSE IF fetched["hourly"] = "data" THEN "forecast"
                  ELSE "unavailable"]
  /\ initPc' = "alerts"
  /\ UNCHANGED <<fetched, chartLib, autoRefresh>>
  /\ UNCHANGED notPage

\* lines 531-532: renderAlertsForPrimary (which catches its own errors),
\* then startAlertsAutoRefresh; lines 535-553 start the family cards
\* without awaiting them
PageAlerts(o) ==
  /\ initPc = "alerts"
  /\ panels' = [panels EXCEPT !["alerts"] = o]
  /\ autoRefresh' = TRUE
  /\ initPc' = "chart"
  /\ UNCHANGED <<fetched, chartLib>>
  /\ UNCHANGED notPage

\* lines 556-619: the hourly chart and its catch
PageChart ==
  /\ initPc = "chart"
  /\ panels' = [panels EXCEPT !["chart"] =
                  IF fetched["hourly"] = "data" /\ chartLib THEN "drawn" ELSE "error"]
  /\ initPc' = "table"
  /\ UNCHANGED <<fetched, chartLib, autoRefresh>>
  /\ UNCHANGED notPage

\* lines 622-658: the extended forecast table and its catch
PageTable ==
  /\ initPc = "table"
  /\ panels' = [panels EXCEPT !["table"] =
                  IF fetched["daily"] = "malformed" THEN "error" ELSE "rows"]
  /\ initPc' = "done"
  /\ UNCHANGED <<fetched, chartLib, autoRefresh>>
  /\ UNCHANGED notPage

PageNext ==
  \/ \E ok \in BOOLEAN : PageResolve(ok)
  \/ \E f \in Feeds, b \in Bodies \cup {"failed"} : PageFetched(f, b)
  \/ \E live \in BOOLEAN : PageCurrent(live)
  \/ \E o \in {"list", "none", "error"} : PageAlerts(o)
  \/ PageChart
  \/ PageTable

(***************************************************************************)
(* The current conditions blocks of init and of renderCompactCurrent.      *)
(***************************************************************************)
\* the sentinel, an em dash in the source
Dash == "--"

\* the suffixes ' °F' and ' %' of the source
DegF == " F"
Pct == " %"

\* the text of an element not yet written, and of a hidden error box
Loading == "loading"
Hidden == ""

NoticeInit == "Live observations unavailable; showing forecast values instead."
NoticeCompact == "Live observations unavailable; showing forecast values."
Unavailable == "Current conditions unavailable: No hourly periods available for fallback."

\* A period of the hourly forecast. temperature is <<n>> for a value
\* Number() makes finite and <<>> for one it does not.
Period(temp, spd, dir, fc) ==
  [temperature |-> temp, windSpeed |-> spd, windDirection |-> dir, shortForecast |-> fc]

\* periods?.[0] is undefined
NoPeriod == Period(<<>>, "none", "none", "none")

Periods ==
  { Period(temp, spd, dir, fc) :
      temp \in {<<>>, <<72>>}, spd \in {"", " ", "5 mph"},
      dir \in {"", "N"}, fc \in {"", "Sunny"} }

\* String.prototype.trim on the strings of the model
Trim(str) == IF str = " " THEN "" ELSE str

\* Math.round of num / den, for num >= 0 and den > 0
Round(num, den) == (2 * num + den) \div (2 * den)

\* lines 60-64, on <<>> for null and <<c>> for a number
toF(valueC) == IF valueC = <<>> THEN <<>> ELSE <<Round(valueC[1] * 9, 5) + 32>>

\* lines 65-73 with the unit missing or miles per hour
windToMph(value) == value

\* lines 74-80
degToCompass(deg) ==
  IF deg = <<>> THEN ""
  ELSE LET dirs == <<"N", "NNE", "NE", "ENE", "E", "ESE", "SE", "SSE",
                     "S", "SSW", "SW", "WSW", "W", "WNW", "NW", "NNW">>
           d == ((deg[1] % 360) + 360) % 360
       IN dirs[(Round(d * 10, 225) % 16) + 1]

\* lines 85-91: an absent or empty text becomes the sentinel
setText(text, suffix) == (IF text = "" THEN Dash ELSE text) \o suffix

\* a number or null, written with a suffix when it is a number
NumberText(n, suffix) == IF n = <<>> THEN setText("", "") ELSE setText(ToString(n[1]), suffix)

CurrentIdle ==
  /\ ccMode = "init"
  /\ ccPc = "off"
  /\ hourlyFirst = NoPeriod
  /\ selected = "none"
  /\ display = <<>>

\* the block has its hourly forecast and awaits the selector
CurrentInit ==
  /\ ccMode \in {"init", "compact"}
  /\ ccPc = "selecting"
  /\ hourlyFirst \in Periods \cup {NoPeriod}
  /\ selected = "none"
  /\ display = [temp |-> Loading, wind |-> Loading, humidity |-> Loading,
                desc |-> Loading, error |-> Hidden]

\* lines 480-493 and 437-447: the observation p is written
LiveDisplay(mode, p, before) ==
  LET speed == NumberText(windToMph(p.windSpeed), " mph")
      dir == degToCompass(p.windDirection)
  IN [temp |-> NumberText(toF(p.temperature), DegF),
      wind |-> setText(IF speed = Dash THEN Dash
                       ELSE speed \o (IF dir = "" THEN "" ELSE " " \o dir), ""),
      humidity |-> IF mode = "init" THEN NumberText(p.relativeHumidity, Pct)
                   ELSE before.humidity,
      desc |-> setText(Trim(p.textDescription), ""),
      error |-> IF mode = "init" THEN before.error ELSE Hidden]

\* lines 506-523 and 452-458: the first period is written, with the notice
ForecastDisplay(mode, period, before) ==
  LET windSpeedStr == Trim(period.windSpeed)
      windDirStr == Trim(period.windDirection)
  IN [temp |-> NumberText(period.temperature, DegF),
      wind |-> setText(IF windSpeedStr = "" THEN Dash
                       ELSE windSpeedStr \o (IF windDirStr = "" THEN "" ELSE " " \o windDirStr), ""),
      humidity |-> IF mode = "init" THEN setText(Dash, "") ELSE before.humidity,
      desc |-> setText(Trim(period.shortForecast), ""),
      error |-> IF mode = "init" THEN NoticeInit ELSE NoticeCompact]

\* lines 524-527 and 461-464: the error and the sentinels
ErrorDisplay(mode, before) ==
  [temp |-> setText(Dash, ""), wind |-> setText(Dash, ""),
   humidity |-> IF mode = "init" THEN setText(Dash, "") ELSE before.humidity,
   desc |-> setText(Dash, ""), error |-> Unavailable]

\* a fallback whose error for a missing period leaves the block
FallbackRethrows(mode, period, before) ==
  IF period = NoPeriod
    THEN [pc |-> "escaped", display |-> before]
    ELSE [pc |-> "done", display |-> ForecastDisplay(mode, period, before)]

\* lines 502-527 and 449-464: the catch of the selector's error. Line 504
\* (451) throws when there is no period; the catch of lines 524-527
\* (461-464) handles it.
Fallback(mode, period, before) ==
  IF period = NoPeriod
    THEN [pc |-> "done", display |-> ErrorDisplay(mode, before)]
    ELSE [pc |-> "done", display |-> ForecastDisplay(mode, period, before)]

\* the selector returns the observation p
CurrentLive(p) ==
  /\ ccPc = "selecting"
  /\ selected' = "observation"
  /\ display' = LiveDisplay(ccMode, p, display)
  /\ ccPc' = "done"
  /\ UNCHANGED <<ccMode, hourlyFirst>>
  /\ UNCHANGED notCurrent

\* the selector throws
CurrentFallback ==
  /\ ccPc = "selecting"
  /\ selected' = "failed"
  /\ display' = Fallback(ccMode, hourlyFirst, display).display
  /\ ccPc' = Fallback(ccMode, hourlyFirst, display).pc
  /\ UNCHANGED <<ccMode, hourlyFirst>>
  /\ UNCHANGED notCurrent

CurrentNext ==
  \/ \E p \in Observations : CurrentLive(p)
  \/ CurrentFallback

\* the components a specification does not run
ExtraIdle == ObsIdle /\ JsonIdle /\ PageIdle /\ CurrentIdle

(***************************************************************************)
(* Specifications.                                                         *)
(***************************************************************************)
Init == SchedInit /\ CacheInit /\ AlertInit /\ RenderInit /\ ExtraIdle

Next == SchedNext

Spec == Init /\ [][Next]_vars

\* the resolver alone
InitCache == SchedIdle /\ CacheInit /\ AlertInit /\ RenderInit /\ ExtraIdle

SpecCache == InitCache /\ [][CacheNext]_vars

\* one call of fetchAlertsCombined
InitAlerts == SchedIdle /\ AlertInit /\ CacheInit /\ RenderInit /\ ExtraIdle

SpecAlerts == InitAlerts /\ [][AlertNext]_vars

\* the sort of renderAlertsForPrimary on every list of up to MaxAlerts alerts
InitSort == SchedIdle /\ CacheInit /\ AlertInit /\ RenderFetched /\ ExtraIdle

SpecSort == InitSort /\ [][RenderNext]_vars

\* the four components above, none of them running
FirstIdle == SchedIdle /\ CacheInit /\ AlertInit /\ RenderInit

\* one call of getNearestObservationParallel
InitObs == FirstIdle /\ ObsInit /\ JsonIdle /\ PageIdle /\ CurrentIdle

SpecObs == InitObs /\ [][ObsNext]_vars

\* concurrent calls of getJSON
InitJson == FirstIdle /\ ObsIdle /\ JsonInit /\ PageIdle /\ CurrentIdle

SpecJson == InitJson /\ [][JsonNext]_vars

\* the initialization sequence of the page
InitPage == FirstIdle /\ ObsIdle /\ JsonIdle /\ PageInit /\ CurrentIdle

SpecPage == InitPage /\ [][PageNext]_vars

\* the current conditions block, in init or in renderCompactCurrent
InitCurrent == FirstIdle /\ ObsIdle /\ JsonIdle /\ PageIdle /\ CurrentInit

SpecCurrent == InitCurrent /\ [][CurrentNext]_vars

(***************************************************************************)
(* Properties of the scheduler.                                            *)
(***************************************************************************)
\* C1: at most one refresh (call of renderAlertsForPrimary by tick) is in
\* flight at any time, whatever the interleaving of timer firings, visibility
\* changes and completions; a tick invoked while one runs starts no second.
C1_AtMostOneInFlight == inflight <= 1 /\ (running <=> inflight = 1)

\* a tick has been invoked while a refresh was running, and one refresh runs
C1_Witness == noops /\ running /\ inflight = 1

\* C2: after every completed tick the next delay is intervalMs on success
\* and min(2 * previous delay, maxBackoffMs) on failure; with 60000/300000
\* three failures in a row give 120000, 240000, 300000.
C2_NextDelay ==
  /\ lastOutcome = "none" => nextDelay = opts.intervalMs
  /\ lastOutcome = "ok" => nextDelay = opts.intervalMs
  /\ lastOutcome \in {"hadError", "throw"} =>
        nextDelay = Min(2 * prevDelay, opts.maxBackoffMs)
  /\ (opts.intervalMs = 60000 /\ opts.maxBackoffMs = 300000) =>
        /\ fails = 0 => nextDelay = 60000
        /\ fails = 1 => nextDelay = 120000
        /\ fails = 2 => nextDelay = 240000
        /\ fails >= 3 => nextDelay = 300000

\* a success right after the delay had reached the cap of 300000
C2_Witness ==
  /\ opts.intervalMs = 60000
  /\ lastOutcome = "ok"
  /\ prevDelay = 300000
  /\ nextDelay = 60000

\* C3: while the page is hidden no timer is pending and no refresh starts,
\* also when the page was hidden while a refresh was in flight.
C3_IdleWhileHidden ==
  [][hidden' => (DOMAIN timers' = {} /\ inflight' <= inflight)]_vars

\* C4: once the cancellation handle has been called, no timer is armed and
\* no refresh starts, whatever completions and visibility changes follow.
C4_CancelIsPermanent ==
  [][cancelled => (nextId' = nextId /\ inflight' <= inflight)]_vars

\* C5: whenever the page becomes visible again after having been hidden, a
\* tick is armed with a delay of 1000 ms.
C5_VisibleArmsOneSecond ==
  [][(hidden /\ ~hidden') =>
       (nextId' = nextId + 1 /\ nextId \in DOMAIN timers' /\ timers'[nextId] = 1000)]_vars

(***************************************************************************)
(* Properties of the endpoint resolver.                                    *)
(***************************************************************************)
SameKey(c, d) ==
  keyFromLatLon(calls[c].lat, calls[c].lon) = keyFromLatLon(calls[d].lat, calls[d].lon)

\* the /points requests made for the coordinate pair of call c
NetCount(c) ==
  Cardinality({ d \in DOMAIN calls : calls[d].pc # "idle" /\ SameKey(c, d) /\ calls[d].usedNet })

\* C6 as stated: any two calls for one coordinate pair return the identical
\* EndpointSet, and one /points request in total is made for the pair.
C6_TwiceOneRequest ==
  \A c, d \in Returned :
    (c # d /\ SameKey(c, d)) => (calls[c].value = calls[d].value /\ NetCount(c) = 1)

\* C6 amended: a call made after a call for the same coordinate pair has
\* returned is served from endpointCache with no network request, and it
\* returns the identical EndpointSet when one /points request was made for
\* the pair.
C6_SecondCallFromCache ==
  \A d \in DOMAIN calls : \A c \in calls[d].after :
    SameKey(c, d) =>
      /\ calls[d].pc = "returned"
      /\ ~calls[d].usedNet
      /\ NetCount(c) = 1 => calls[d].value = calls[c].value

\* a second call made after the first, which used the network, had returned
C6_Witness ==
  \E d \in Returned : \E c \in calls[d].after :
    SameKey(c, d) /\ calls[c].usedNet /\ NetCount(c) = 1 /\ calls[d].value = calls[c].value

(***************************************************************************)
(* Properties of the alert aggregator.                                     *)
(***************************************************************************)
\* the features of s whose key no earlier feature of s has
FirstByKey(s) ==
  LET keep == { k \in 1..Len(s) : \A m \in 1..(k - 1) : alertKey(s[m]) # alertKey(s[k]) }
      RECURSIVE Pick(_)
      Pick(n) == IF n = 0 THEN <<>>
                 ELSE Pick(n - 1) \o (IF n \in keep THEN <<s[n]>> ELSE <<>>)
  IN Pick(Len(s))

InSeq(x, s) == \E k \in 1..Len(s) : s[k] = x

\* C7: the returned sequence has no two features with the same alertKey, and
\* for each key it keeps the first feature in the order point features, then
\* filtered zone features.
C7_UniqueByKey ==
  faPc = "done" =>
    LET all == AllOf(results, reqs, zoneCodes) IN
    /\ \A i, j \in 1..Len(unique) :
         i # j => alertKey(unique[i]) # alertKey(unique[j])
    /\ \A i \in 1..Len(unique) : \E k \in 1..Len(all) :
         /\ all[k] = unique[i]
         /\ \A m \in 1..(k - 1) : alertKey(all[m]) # alertKey(all[k])
    /\ \A k \in 1..Len(all) : \E i \in 1..Len(unique) :
         alertKey(unique[i]) = alertKey(all[k])

\* a point feature and a kept zone feature of different content share a key;
\* the point feature is returned and the zone feature is not
C7_Witness ==
  /\ faPc = "done"
  /\ LET all == AllOf(results, reqs, zoneCodes) IN
     \E k, m \in 1..Len(all) :
       /\ k < m
       /\ alertKey(all[k]) = alertKey(all[m])
       /\ all[k].resp = "point" /\ all[m].resp = "zone"
       /\ all[k].event # all[m].event
       /\ InSeq(all[k], unique) /\ ~InSeq(all[m], unique)

\* does the UGC list of f, when it is an array, share a code with codes?
SharesZone(f, codes) ==
  /\ f.ugc.kind = "array"
  /\ \E k \in 1..Len(f.ugc.items) : InSeq(f.ugc.items[k], codes)

\* C9: no feature that came from a zone query and whose UGC list shares no
\* code with the resolved zone codes is in the merged result; a missing or
\* non-array UGC list counts as no zones.
C9_ZoneNoiseFiltered ==
  faPc = "done" =>
    \A i \in 1..Len(unique) :
      unique[i].resp = "zone" => SharesZone(unique[i], zoneCodes)

\* zone queries for TX209 and TX453 returned a feature with UGC ["ZZ999"]
\* and one without a UGC array; neither is in the result
C9_Witness ==
  /\ faPc = "done"
  /\ zoneCodes = <<"TX209", "TX453">>
  /\ \E i, j \in 1..Len(received) :
       /\ reqs[i].kind = "zone" /\ reqs[j].kind = "zone"
       /\ \E f \in { received[i].features[k] : k \in 1..Len(received[i].features) } :
            f.ugc = Ugc(<<"ZZ999">>) /\ ~InSeq(f, unique)
       /\ \E g \in { received[j].features[k] : k \in 1..Len(received[j].features) } :
            g.ugc.kind # "array" /\ ~InSeq(g, unique)

\* the merge of what the API answered: point features, then the zone
\* features sharing a zone code, in the order of the requests
RECURSIVE ZoneAnswers(_)
ZoneAnswers(n) ==
  IF n = 0 THEN <<>>
  ELSE ZoneAnswers(n - 1) \o
       (IF reqs[n].kind = "zone" /\ received[n].state = "ok"
          THEN SelectSeq(received[n].features, LAMBDA f : SharesZone(f, zoneCodes))
          ELSE <<>>)

PointAnswer ==
  LET n == Len(reqs) IN
  IF received[n].state = "ok" THEN received[n].features ELSE <<>>

\* C10: once /points has succeeded, no failure of the alert queries makes
\* fetchAlertsCombined fail; a failed query contributes no feature and the
\* result is the filtered, deduplicated merge of the queries that succeeded.
C10_PartialFailureTolerant ==
  /\ faPc = "failed" => received = <<>>
  /\ (received # <<>> /\ \A k \in 1..Len(received) : received[k].state # "pending")
       => faPc = "done"
  /\ faPc = "done" => unique = FirstByKey(PointAnswer \o ZoneAnswers(Len(reqs)))

\* a query failed, another returned features, and the call returned them
C10_Witness ==
  /\ faPc = "done"
  /\ \E k \in 1..Len(received) : received[k].state = "failed"
  /\ \E k \in 1..Len(received) : received[k].state = "ok" /\ received[k].features # <<>>
  /\ unique # <<>>

\* the answer to the zone request for code z, filtered
ZoneAnswerFor(z) ==
  LET n == CHOOSE k \in 1..Len(reqs) : reqs[k] = [kind |-> "zone", arg |-> z] IN
  IF received[n].state = "ok"
    THEN SelectSeq(received[n].features, LAMBDA f : SharesZone(f, zoneCodes))
    ELSE <<>>

RECURSIVE ZonesInResolvedOrder(_)
ZonesInResolvedOrder(n) ==
  IF n = 0 THEN <<>>
  ELSE ZonesInResolvedOrder(n - 1) \o ZoneAnswerFor(zoneCodes[n])

\* C11: for given answers to the point and zone queries the returned
\* sequence is the same whatever the order the requests settle in: the point
\* answer first, then the zone answers in the order of the resolved zone
\* codes, the first feature of each key kept.
C11_OrderIndependent ==
  faPc = "done" =>
    unique = FirstByKey(PointAnswer \o ZonesInResolvedOrder(Len(zoneCodes)))

\* the second zone request settled first and the point request last; the
\* point feature still comes first and wins over the first zone's feature of
\* the same key, and the second zone's feature follows
C11_Witness ==
  /\ faPc = "done"
  /\ order = <<2, 1, 3>>
  /\ Len(unique) = 2
  /\ unique[1].resp = "point"
  /\ unique[2] \in { received[2].features[k] : k \in 1..Len(received[2].features) }
  /\ \E k \in 1..Len(received[1].features) :
       /\ alertKey(received[1].features[k]) = alertKey(unique[1])
       /\ SharesZone(received[1].features[k], zoneCodes)

\* C16: at most one timer of the scheduler is pending at any time.
C16_AtMostOneTimer == Cardinality(DOMAIN timers) <= 1

(***************************************************************************)
(* Properties of the severity sort.                                        *)
(***************************************************************************)
\* the earliest of onset, effective and the current time
EarliestOf(f) ==
  LET ts == { t \in {f.onset, f.effective} : t # 0 } \cup {Now} IN
  CHOOSE t \in ts : \A u \in ts : t <= u

\* onset when present, else effective when present, else the current time
FirstOf(f) ==
  IF f.onset # 0 THEN f.onset ELSE IF f.effective # 0 THEN f.effective ELSE Now

Rank(f) ==
  CASE f.severity = "Extreme"  -> 5
    [] f.severity = "Severe"   -> 4
    [] f.severity = "Moderate" -> 3
    [] f.severity = "Minor"    -> 2
    [] f.severity = "Unknown"  -> 1
    [] OTHER                   -> 0

SamePermutation(s, t) ==
  /\ Len(s) = Len(t)
  /\ \A x \in { s[k] : k \in 1..Len(s) } \cup { t[k] : k \in 1..Len(t) } :
       Cardinality({ k \in 1..Len(s) : s[k] = x }) =
       Cardinality({ k \in 1..Len(t) : t[k] = x })

\* C8 as stated: the alerts are shown by severity rank descending, and
\* within one severity ascending by the earliest of onset, effective and now.
C8_SortedByEarliest ==
  renderPc = "rendered" =>
    \A i, j \in 1..Len(shown) :
      i < j =>
        /\ Rank(shown[i]) >= Rank(shown[j])
        /\ Rank(shown[i]) = Rank(shown[j]) => EarliestOf(shown[i]) <= EarliestOf(shown[j])

\* C8 amended: the alerts are shown by severity rank descending (Extreme 5,
\* Severe 4, Moderate 3, Minor 2, Unknown 1, other 0), and within one
\* severity ascending by onset if present, else effective if present, else
\* the current time.
C8_SortedByFirstOf ==
  renderPc = "rendered" =>
    /\ SamePermutation(shown, active)
    /\ \A i, j \in 1..Len(shown) :
         i < j =>
           /\ Rank(shown[i]) >= Rank(shown[j])
           /\ Rank(shown[i]) = Rank(shown[j]) => FirstOf(shown[i]) <= FirstOf(shown[j])

\* three alerts given as Minor, Extreme, Unknown are shown Extreme, Minor,
\* Unknown
C8_Witness ==
  /\ renderPc = "rendered"
  /\ Len(active) = 3
  /\ <<active[1].severity, active[2].severity, active[3].severity>> =
       <<"Minor", "Extreme", "Unknown">>
  /\ <<shown[1].severity, shown[2].severity, shown[3].severity>> =
       <<"Extreme", "Minor", "Unknown">>

(***************************************************************************)
(* Properties of the observation selector.                                 *)
(***************************************************************************)
\* the requests that succeeded with a properties body
Candidates ==
  { k \in 1..Len(obsResults) : obsResults[k].status = "fulfilled" /\ obsResults[k].hasP }

\* the completeness score of the spec: 3, 2, 1 or 0
Completeness(p) ==
  IF p.temperature # <<>> /\ p.relativeHumidity # <<>> /\ p.windSpeed # <<>>
     /\ p.windDirection # <<>> THEN 3
  ELSE IF p.temperature # <<>> /\ p.textDescription # "" THEN 2
  ELSE IF p.temperature # <<>> \/ p.textDescription # "" THEN 1
  ELSE 0

\* the timestamp of an observation, the current time standing in for a
\* missing one
StampOf(p) == IF p.timestamp = 0 THEN Now ELSE p.timestamp

\* C12: the observation returned is that of a station among the first 10
\* whose request succeeded with a properties body, of maximal completeness
\* score among those, with the earliest timestamp among equal scores; failed
\* and empty answers are never returned and make the call fail only when no
\* candidate exists.
C12_BestObservation ==
  /\ \A k \in 1..Len(subset) :
       subset[k] <= 10 /\ stations[subset[k]].id # ""
  /\ obsPc = "returned" =>
       \E k \in Candidates :
         /\ obsReturn = obsResults[k].p
         /\ \A j \in Candidates :
              /\ Completeness(obsResults[j].p) <= Completeness(obsResults[k].p)
              /\ Completeness(obsResults[j].p) = Completeness(obsResults[k].p)
                   => StampOf(obsResults[k].p) <= StampOf(obsResults[j].p)
  /\ obsPc = "threw" => Candidates = {}
  /\ (obsPc = "awaiting") => \E k \in 1..Len(obsResults) : obsResults[k].status = "pending"

\* three stations: A answers with all four measurements, B with the
\* temperature only, the request for C fails; A's observation is returned
C12_Witness ==
  /\ obsPc = "returned"
  /\ Len(obsResults) = 3
  /\ obsResults[1].hasP /\ Completeness(obsResults[1].p) = 3
  /\ obsResults[2].hasP /\ Completeness(obsResults[2].p) = 1
  /\ obsResults[2].p.temperature # <<>>
  /\ obsResults[3].status = "rejected"
  /\ obsReturn = obsResults[1].p

(***************************************************************************)
(* Properties of the initialization sequence.                              *)
(***************************************************************************)
\* init has run to its end or into its outer catch
InitOver == initPc \in {"done", "failed"}

\* the concern c has rendered its content or its own error
Handled(c) == panels[c] \notin {"waiting", "blocked"}

\* C13: once the endpoints are resolved, a failure of one concern, a failed
\* request of its data included, stops no other concern: when init is over
\* the alerts have rendered, the auto-refresh has started, and each of the
\* other concerns has rendered whenever a request it can use has resolved.
C13_FailureBoundaries ==
  (InitOver /\ \A f \in Feeds : fetched[f] # "unsent") =>
    /\ Handled("alerts")
    /\ autoRefresh
    /\ fetched["hourly"] \in Bodies => Handled("chart") /\ Handled("current")
    /\ fetched["stations"] \in Bodies => Handled("current")
    /\ fetched["daily"] \in Bodies => Handled("table")

(***************************************************************************)
(* Properties of the current conditions blocks.                            *)
(***************************************************************************)
\* C15: when the observation selector fails, the block ends without an
\* error leaving it; with a first hourly period it shows that period's
\* values (temperature with its unit, wind speed and direction, forecast
\* text, the sentinel for what is absent) and the notice; without one it
\* shows the error message and the sentinel in every field it writes.
C15_FallbackToForecast ==
  /\ ccPc # "escaped"
  /\ selected = "failed" =>
       /\ ccPc = "done"
       /\ display.humidity = IF ccMode = "init" THEN "--" ELSE "loading"
       /\ IF hourlyFirst = NoPeriod
            THEN /\ display.error = Unavailable
                 /\ display.temp = "--" /\ display.wind = "--" /\ display.desc = "--"
            ELSE /\ display.error \in {NoticeInit, NoticeCompact}
                 /\ display.temp = (IF hourlyFirst.temperature = <<72>> THEN "72 F" ELSE "--")
                 /\ display.desc = (IF hourlyFirst.shortForecast = "Sunny" THEN "Sunny" ELSE "--")
                 /\ display.wind =
                      (IF hourlyFirst.windSpeed # "5 mph" THEN "--"
                       ELSE IF hourlyFirst.windDirection = "N" THEN "5 mph N" ELSE "5 mph")

\* the selector has failed and no period exists, in renderCompactCurrent
C15_Witness ==
  /\ ccMode = "compact"
  /\ selected = "failed"
  /\ hourlyFirst = NoPeriod
  /\ ccPc = "done"
  /\ display.error = Unavailable

(***************************************************************************)
(* Properties of the fetch helper.                                         *)
(***************************************************************************)
\* C14: once timeoutMs has passed no call of getJSON is still pending, a call
\* that fails at the timeout while its fetch is pending fails with the
\* timeout error, and the timer of a call that has settled never fires.
C14_NoCallPendingAfterTimeout ==
  \A r \in DOMAIN requests :
    /\ requests[r].elapsed => requests[r].pc \in {"returned", "failed"}
    /\ requests[r].error = "timeout" => requests[r].elapsed
    /\ requests[r].timer = "fired" => requests[r].error \in {"timeout", "http"}

====
